---- MODULE Spec2Model ----
(***************************************************************************)
(* Model of src/app.py: the Streamlit dashboard of the Atlantic Housing    *)
(* Innovation Strategy.  The state is the loaded data frame, the Streamlit *)
(* session state (five facet selections and active_tab) and the values the *)
(* script computes on every run (filtered_for_options, the five option     *)
(* lists, filtered).  A string is a sequence of one-character strings, so  *)
(* that split, strip, str and sorted are computed, not assumed.            *)
(***************************************************************************)
EXTENDS Integers, Sequences, FiniteSets, TLC

\* ------------------------------------------------------------------ bounds
\* Largest number of rows of the sheet.
MaxRecs == 3
\* Largest number of values selected over the five multiselects together.
MaxSelected == 4

\* ----------------------------------------------------------------- strings
\* The characters in use, in code-point order (what Python compares by).
Alphabet == <<" ", ",", "-", "2", "3", "4", "5", "F", "H", "a", "b", "n", "p", "q", "s", "t">>

Ord(c) == CHOOSE i \in 1..Len(Alphabet) : Alphabet[i] = c

\* A missing cell (pandas NaN): a one-element sequence that is no string.
NaN == <<"NaN">>

notna(cell) == cell # NaN

\* str(cell) / astype(str): a string is itself, NaN is the text "nan".
Str(cell) == IF cell = NaN THEN <<"n", "a", "n">> ELSE cell

\* Python's < on strings.
LexLess(s, t) ==
    \E k \in 0..Len(s) :
        /\ k <= Len(t)
        /\ \A i \in 1..k : s[i] = t[i]
        /\ \/ k = Len(s) /\ k < Len(t)
           \/ k < Len(s) /\ k < Len(t) /\ Ord(s[k + 1]) < Ord(t[k + 1])

\* sorted(S) of a set of strings.
RECURSIVE Sorted(_)
Sorted(S) ==
    IF S = {} THEN <<>>
    ELSE LET m == CHOOSE x \in S : \A y \in S \ {x} : LexLess(x, y)
         IN  <<m>> \o Sorted(S \ {m})

\* s.split(","): the pieces between commas, empty pieces included.
RECURSIVE Split(_)
Split(s) ==
    IF \A i \in 1..Len(s) : s[i] # "," THEN <<s>>
    ELSE LET k == CHOOSE i \in 1..Len(s) :
                      s[i] = "," /\ \A j \in 1..(i - 1) : s[j] # ","
         IN  <<SubSeq(s, 1, k - 1)>> \o Split(SubSeq(s, k + 1, Len(s)))

\* s.strip(): leading and trailing whitespace removed.
RECURSIVE Strip(_)
Strip(s) ==
    IF s = <<>> THEN s
    ELSE IF Head(s) = " " THEN Strip(Tail(s))
    ELSE IF s[Len(s)] = " " THEN Strip(SubSeq(s, 1, Len(s) - 1))
    ELSE s

Range(f) == {f[i] : i \in 1..Len(f)}

\* [x for x in xs if x in keep]
RECURSIVE Keep(_, _)
Keep(xs, keep) ==
    IF xs = <<>> THEN <<>>
    ELSE IF Head(xs) \in keep THEN <<Head(xs)>> \o Keep(Tail(xs), keep)
    ELSE Keep(Tail(xs), keep)

\* ------------------------------------------------------------------- input
\* The rows the sheet is drawn from.
Row(id, cat, sub, loc, stk, tl) ==
    [ID |-> id, Category |-> cat, SubCategory |-> sub, LocationIdentified |-> loc,
     Contributors |-> stk, ExpectedTimeline |-> tl]

MasterSheet ==
    << Row(7, <<"H">>, <<"s">>, <<"a", ",", " ", "b">>, <<"p", ",", "q">>,
              <<"2", "2", "-", "2", "4">>),
       Row(3, <<"F">>, <<"t">>, <<"b">>, <<"q">>, <<"2", "3">>),
       Row(9, NaN, NaN, NaN, NaN, NaN),
       Row(5, <<"F">>, <<"s">>, <<"a", ",", ",", "b", " ">>, <<"p">>, <<"2", "5">>),
       Row(4, <<"H">>, <<"t">>, <<"a">>, <<"p">>, <<"2", "3">>) >>

\* The ids with a file assets/<id>.png.
AssetIds == {3, 5, 7, 9}

\* The sheets: the rows of MasterSheet at an increasing choice of at most
\* MaxRecs positions.
RECURSIVE Pick(_, _)
Pick(idx, i) ==
    IF i > Len(MasterSheet) THEN <<>>
    ELSE IF i \in idx THEN <<MasterSheet[i]>> \o Pick(idx, i + 1)
    ELSE Pick(idx, i + 1)

Sheets ==
    {Pick(idx, 1) : idx \in {s \in SUBSET (1..Len(MasterSheet)) : Cardinality(s) <= MaxRecs}}

\* ------------------------------------------------------------------- state
VARIABLES
    sheet,                 \* the rows of the Excel sheet
    df,                    \* the data frame after load_data and preprocess_tokens
    session_state,         \* st.session_state
    filtered_for_options,  \* line 103
    category_options, subcategory_options, location_options,
    stakeholder_options, timeline_options,
    filtered,              \* line 136
    incoming,              \* session_state as the last run of the script found it
    lastEvent,             \* the widget event that caused the last run
    pc                     \* "rerun": the script is about to run; "idle": it has run

vars == <<sheet, df, session_state, filtered_for_options, category_options,
          subcategory_options, location_options, stakeholder_options,
          timeline_options, filtered, incoming, lastEvent, pc>>

FilterKeys == {"category_filter", "subcategory_filter", "location_filter",
               "stakeholder_filter", "timeline_filter"}

\* ---------------------------------------------------------------- load_data
load_data(rows) ==
    [i \in 1..Len(rows) |-> [rows[i] EXCEPT !.ExpectedTimeline = Str(@)]]

\* The lambda of lines 37 and 40.
tokens_of(cell) ==
    LET parts == Split(Str(cell))
        nonEmpty(part) == Strip(part) # <<>>
        kept == SelectSeq(parts, nonEmpty)
    IN  [i \in 1..Len(kept) |-> Strip(kept[i])]

preprocess_tokens(frame) ==
    LET withTokens ==
            [i \in 1..Len(frame) |->
                [ID |-> frame[i].ID,
                 Category |-> frame[i].Category,
                 SubCategory |-> frame[i].SubCategory,
                 LocationIdentified |-> frame[i].LocationIdentified,
                 Contributors |-> frame[i].Contributors,
                 ExpectedTimeline |-> frame[i].ExpectedTimeline,
                 location_tokens |-> tokens_of(frame[i].LocationIdentified),
                 stakeholder_tokens |-> tokens_of(frame[i].Contributors),
                 has_image |-> frame[i].ID \in AssetIds]]
        hasImage(r) == r.has_image
    IN  SelectSeq(withTokens, hasImage)

\* ------------------------------------------------------------ session state
InitialSessionState ==
    [category_filter |-> <<>>, subcategory_filter |-> <<>>, location_filter |-> <<>>,
     stakeholder_filter |-> <<>>, timeline_filter |-> <<>>,
     active_tab |-> "Dashboard View"]

\* reset_filters without its last assignment (line 69).
reset_filters_NoTimeline(ss) ==
    [ss EXCEPT !.category_filter = <<>>, !.subcategory_filter = <<>>,
               !.location_filter = <<>>, !.stakeholder_filter = <<>>]

reset_filters(ss) ==
    [ss EXCEPT !.category_filter = <<>>, !.subcategory_filter = <<>>,
               !.location_filter = <<>>, !.stakeholder_filter = <<>>,
               !.timeline_filter = <<>>]

\* ----------------------------------------------------------------- filter_df
\* Series.isin(values)
isin(v, values) == v \in Range(values)

\* any(x in tokens for x in selection)
any_in(selection, tokens) == \E i \in 1..Len(selection) : selection[i] \in Range(tokens)

\* filter_df whose location step filters df instead of filtered (line 84).
filter_df_LocationFromDf(frame, ss) ==
    LET byCategory(r) == isin(r.Category, ss.category_filter)
        f1 == IF ss.category_filter # <<>> THEN SelectSeq(frame, byCategory) ELSE frame
        bySubCategory(r) == isin(r.SubCategory, ss.subcategory_filter)
        f2 == IF ss.subcategory_filter # <<>> THEN SelectSeq(f1, bySubCategory) ELSE f1
        byLocation(r) == any_in(ss.location_filter, r.location_tokens)
        f3 == IF ss.location_filter # <<>> THEN SelectSeq(frame, byLocation) ELSE f2
        byStakeholder(r) == any_in(ss.stakeholder_filter, r.stakeholder_tokens)
        f4 == IF ss.stakeholder_filter # <<>> THEN SelectSeq(f3, byStakeholder) ELSE f3
        byTimeline(r) == isin(r.ExpectedTimeline, ss.timeline_filter)
        f5 == IF ss.timeline_filter # <<>> THEN SelectSeq(f4, byTimeline) ELSE f4
    IN  f5

filter_df(frame, ss) ==
    LET byCategory(r) == isin(r.Category, ss.category_filter)
        f1 == IF ss.category_filter # <<>> THEN SelectSeq(frame, byCategory) ELSE frame
        bySubCategory(r) == isin(r.SubCategory, ss.subcategory_filter)
        f2 == IF ss.subcategory_filter # <<>> THEN SelectSeq(f1, bySubCategory) ELSE f1
        byLocation(r) == any_in(ss.location_filter, r.location_tokens)
        f3 == IF ss.location_filter # <<>> THEN SelectSeq(f2, byLocation) ELSE f2
        byStakeholder(r) == any_in(ss.stakeholder_filter, r.stakeholder_tokens)
        f4 == IF ss.stakeholder_filter # <<>> THEN SelectSeq(f3, byStakeholder) ELSE f3
        byTimeline(r) == isin(r.ExpectedTimeline, ss.timeline_filter)
        f5 == IF ss.timeline_filter # <<>> THEN SelectSeq(f4, byTimeline) ELSE f4
    IN  f5

\* ------------------------------------------------------------ filter options
\* sorted(frame[col].dropna().unique())
CategoryOptions(frame) ==
    Sorted({frame[i].Category : i \in {j \in 1..Len(frame) : notna(frame[j].Category)}})

SubCategoryOptions(frame) ==
    Sorted({frame[i].SubCategory : i \in {j \in 1..Len(frame) : notna(frame[j].SubCategory)}})

\* The pieces of cell.split(",") if pd.notna(cell) else []
RawPieces(cell) == IF notna(cell) THEN Range(Split(cell)) ELSE {}

LocationOptions(frame) ==
    Sorted(UNION {RawPieces(frame[i].LocationIdentified) : i \in 1..Len(frame)})

StakeholderOptions(frame) ==
    Sorted(UNION {RawPieces(frame[i].Contributors) : i \in 1..Len(frame)})

\* sorted(frame["Expected Timeline"].dropna().astype(str).unique())
TimelineOptions(frame) ==
    Sorted({Str(frame[i].ExpectedTimeline) :
               i \in {j \in 1..Len(frame) : notna(frame[j].ExpectedTimeline)}})

\* The comprehension of lines 106..126 with its condition dropped.
Sanitize_KeepAll(selection, options) == selection

\* [c for c in selection if c in options]
Sanitize(selection, options) == Keep(selection, Range(options))

\* The option list lines 105..125 compute for this key from a frame.
OptionsOf(key, frame) ==
    CASE key = "category_filter" -> CategoryOptions(frame)
      [] key = "subcategory_filter" -> SubCategoryOptions(frame)
      [] key = "location_filter" -> LocationOptions(frame)
      [] key = "stakeholder_filter" -> StakeholderOptions(frame)
      [] key = "timeline_filter" -> TimelineOptions(frame)

\* The option list of the multiselect with this key, as last computed.
Options(key) ==
    CASE key = "category_filter" -> category_options
      [] key = "subcategory_filter" -> subcategory_options
      [] key = "location_filter" -> location_options
      [] key = "stakeholder_filter" -> stakeholder_options
      [] key = "timeline_filter" -> timeline_options

NSelected(ss) ==
    Len(ss.category_filter) + Len(ss.subcategory_filter) + Len(ss.location_filter)
        + Len(ss.stakeholder_filter) + Len(ss.timeline_filter)

\* ------------------------------------------------------------------ actions
Init ==
    /\ sheet \in Sheets
    /\ df = preprocess_tokens(load_data(sheet))
    /\ session_state = InitialSessionState
    /\ filtered_for_options = <<>>
    /\ category_options = <<>>
    /\ subcategory_options = <<>>
    /\ location_options = <<>>
    /\ stakeholder_options = <<>>
    /\ timeline_options = <<>>
    /\ filtered = <<>>
    /\ incoming = InitialSessionState
    /\ lastEvent = [op |-> "start", key |-> "", value |-> <<>>]
    /\ pc = "rerun"

\* One run of the script from line 103 to line 136.
Rerun ==
    /\ pc = "rerun"
    /\ LET ffo == filter_df(df, session_state)
           co == CategoryOptions(ffo)
           so == SubCategoryOptions(ffo)
           lo == LocationOptions(ffo)
           ko == StakeholderOptions(ffo)
           to == TimelineOptions(ffo)
           ss == [session_state EXCEPT
                     !.category_filter = Sanitize(@, co),
                     !.subcategory_filter = Sanitize(@, so),
                     !.location_filter = Sanitize(@, lo),
                     !.stakeholder_filter = Sanitize(@, ko),
                     !.timeline_filter = Sanitize(@, to)]
       IN  /\ filtered_for_options' = ffo
           /\ category_options' = co
           /\ subcategory_options' = so
           /\ location_options' = lo
           /\ stakeholder_options' = ko
           /\ timeline_options' = to
           /\ session_state' = ss
           /\ filtered' = filter_df(df, ss)
    /\ incoming' = session_state
    /\ pc' = "idle"
    /\ UNCHANGED <<sheet, df, lastEvent>>

\* The user picks one more value in a multiselect: the widget appends it to
\* the value under its key and the script runs again.
Select(key, v) ==
    /\ pc = "idle"
    /\ v \in Range(Options(key))
    /\ v \notin Range(session_state[key])
    /\ NSelected(session_state) < MaxSelected
    /\ session_state' = [session_state EXCEPT ![key] = Append(@, v)]
    /\ lastEvent' = [op |-> "select", key |-> key, value |-> v]
    /\ pc' = "rerun"
    /\ UNCHANGED <<sheet, df, filtered_for_options, category_options,
                   subcategory_options, location_options, stakeholder_options,
                   timeline_options, filtered, incoming>>

\* The user removes one value from a multiselect.
Deselect(key, v) ==
    /\ pc = "idle"
    /\ v \in Range(session_state[key])
    /\ session_state' = [session_state EXCEPT ![key] = Keep(@, Range(@) \ {v})]
    /\ lastEvent' = [op |-> "deselect", key |-> key, value |-> v]
    /\ pc' = "rerun"
    /\ UNCHANGED <<sheet, df, filtered_for_options, category_options,
                   subcategory_options, location_options, stakeholder_options,
                   timeline_options, filtered, incoming>>

\* The Reset Filters button: its on_click callback, then the script runs again.
ResetClick ==
    /\ pc = "idle"
    /\ session_state' = reset_filters(session_state)
    /\ lastEvent' = [op |-> "reset", key |-> "", value |-> <<>>]
    /\ pc' = "rerun"
    /\ UNCHANGED <<sheet, df, filtered_for_options, category_options,
                   subcategory_options, location_options, stakeholder_options,
                   timeline_options, filtered, incoming>>

SelectAny == \E key \in FilterKeys : \E v \in Range(Options(key)) : Select(key, v)

DeselectAny == \E key \in FilterKeys : \E v \in Range(session_state[key]) : Deselect(key, v)

Next == Rerun \/ SelectAny \/ DeselectAny \/ ResetClick

Spec == Init /\ [][Next]_vars

\* ------------------------------------------------------------------ claims
Idle == pc = "idle"

Rows(frame) == Range(frame)

\* A session state with the selection under one key emptied.
Without(ss, key) == [ss EXCEPT ![key] = <<>>]

\* The row of the sheet a record of df was loaded from.
SheetRow(r) == CHOOSE row \in Range(sheet) : row.ID = r.ID

\* C1: in every run of the script, each facet's option list is the one
\* obtained from the records matching the selections of the other four
\* facets only (the facet's own selection has no influence on it).
C1_SelfExclusion ==
    Idle => \A key \in FilterKeys :
                Options(key) = OptionsOf(key, filter_df(df, Without(incoming, key)))

\* C2: when the user has added a value offered by a facet's option list to
\* that facet's selection, the run that follows shows a non-empty result and
\* the value is still selected.
C2_OfferedValueSelectable ==
    (Idle /\ lastEvent.op = "select") =>
        /\ filtered # <<>>
        /\ lastEvent.value \in Range(session_state[lastEvent.key])

\* The timeline normalizer of the specification: a year, or start-end.
Digits == <<"0", "1", "2", "3", "4", "5", "6", "7", "8", "9">>

IsInt(s) == s # <<>> /\ \A i \in 1..Len(s) : s[i] \in Range(Digits)

RECURSIVE ParseInt(_)
ParseInt(s) ==
    IF s = <<>> THEN 0
    ELSE ParseInt(SubSeq(s, 1, Len(s) - 1)) * 10
             + ((CHOOSE d \in 1..Len(Digits) : Digits[d] = s[Len(s)]) - 1)

Absent == [ok |-> FALSE, start |-> 0, end |-> 0]

parse_timeline(value) ==
    IF value = NaN THEN Absent
    ELSE LET t == Strip(value)
             dashes == {i \in 1..Len(t) : t[i] = "-"}
         IN  IF Cardinality(dashes) = 1
                THEN LET k == CHOOSE i \in dashes : TRUE
                         a == Strip(SubSeq(t, 1, k - 1))
                         b == Strip(SubSeq(t, k + 1, Len(t)))
                     IN  IF IsInt(a) /\ IsInt(b)
                            THEN [ok |-> TRUE, start |-> ParseInt(a), end |-> ParseInt(b)]
                            ELSE Absent
             ELSE IF IsInt(t) THEN [ok |-> TRUE, start |-> ParseInt(t), end |-> ParseInt(t)]
             ELSE Absent

IntervalMatch(r, years) ==
    LET iv == parse_timeline(r.ExpectedTimeline)
    IN  /\ iv.ok
        /\ \E i \in 1..Len(years) :
               iv.start <= ParseInt(years[i]) /\ ParseInt(years[i]) <= iv.end

\* C3: with a non-empty selection of years in the timeline facet, the records
\* shown are those that satisfy the other four facets and whose timeline
\* parses to an interval [start, end] holding at least one selected year.
C3_TimelineIntervalMatch ==
    (/\ Idle
     /\ session_state.timeline_filter # <<>>
     /\ \A i \in 1..Len(session_state.timeline_filter) :
            IsInt(session_state.timeline_filter[i])) =>
        \A r \in Rows(df) :
            r \in Rows(filtered) <=>
                /\ r \in Rows(filter_df(df, Without(session_state, "timeline_filter")))
                /\ IntervalMatch(r, session_state.timeline_filter)

\* A record satisfies the facets of ss whose selection is non-empty: category,
\* subcategory and timeline by membership of its single value, location and
\* stakeholder by sharing a token with the selection.
Satisfies(r, ss) ==
    /\ ss.category_filter # <<>> => r.Category \in Range(ss.category_filter)
    /\ ss.subcategory_filter # <<>> => r.SubCategory \in Range(ss.subcategory_filter)
    /\ ss.location_filter # <<>> =>
           Range(r.location_tokens) \cap Range(ss.location_filter) # {}
    /\ ss.stakeholder_filter # <<>> =>
           Range(r.stakeholder_tokens) \cap Range(ss.stakeholder_filter) # {}
    /\ ss.timeline_filter # <<>> => r.ExpectedTimeline \in Range(ss.timeline_filter)

\* xs is ys with the positions outside an index set taken out, order kept.
IsSubsequenceAt(xs, ys, idx) ==
    /\ Len(xs) = Cardinality(idx)
    /\ \A n \in 1..Len(xs) :
           \E i \in idx : Cardinality({j \in idx : j <= i}) = n /\ xs[n] = ys[i]

NoSelection(ss) == \A key \in FilterKeys : ss[key] = <<>>

C5_SanitizedSelections ==
    Idle => \A key \in FilterKeys :
                /\ Range(session_state[key]) \subseteq Range(Options(key))
                /\ IsSubsequenceAt(session_state[key], incoming[key],
                       {i \in 1..Len(incoming[key]) :
                            incoming[key][i] \in Range(Options(key))})

\* C5's case: a run removed a value from a selection and kept two others.
C5_Witness ==
    /\ Idle
    /\ \E key \in FilterKeys :
           /\ Len(session_state[key]) >= 2
           /\ Len(session_state[key]) < Len(incoming[key])

TokenSet(frame, col) == UNION {Range(frame[i][col]) : i \in 1..Len(frame)}

\* C6: the location and stakeholder option lists of a run are the sorted
\* distinct tokens (location_tokens, stakeholder_tokens) of the records of
\* filtered_for_options, so a selected token that occurs in one of these
\* records survives sanitization.
C6_TokenOptions ==
    Idle =>
        /\ location_options = Sorted(TokenSet(filtered_for_options, "location_tokens"))
        /\ stakeholder_options = Sorted(TokenSet(filtered_for_options, "stakeholder_tokens"))
        /\ \A v \in Range(incoming.location_filter) :
               v \in TokenSet(filtered_for_options, "location_tokens")
                   => v \in Range(session_state.location_filter)
        /\ \A v \in Range(incoming.stakeholder_filter) :
               v \in TokenSet(filtered_for_options, "stakeholder_tokens")
                   => v \in Range(session_state.stakeholder_filter)

\* C7: a record whose timeline cell is missing or unparsable is not shown
\* under a non-empty timeline selection and puts no entry into the timeline
\* option list.
C7_MissingTimelineExcluded ==
    Idle =>
        \A r \in Rows(df) :
            (~ parse_timeline(SheetRow(r).ExpectedTimeline).ok) =>
                /\ session_state.timeline_filter # <<>> => r \notin Rows(filtered)
                /\ r \in Rows(filtered_for_options) =>
                       r.ExpectedTimeline \notin Range(timeline_options)

\* The tokenizer of the specification, reading the cell character by character.
RECURSIVE Scan(_, _, _)
Scan(cell, piece, out) ==
    LET flush == IF Strip(piece) = <<>> THEN out ELSE Append(out, Strip(piece))
    IN  IF cell = <<>> THEN flush
        ELSE IF Head(cell) = "," THEN Scan(Tail(cell), <<>>, flush)
        ELSE Scan(Tail(cell), Append(piece, Head(cell)), out)

tokenize(cell) == IF cell = NaN THEN <<>> ELSE Scan(cell, <<>>, <<>>)

\* C8: the token lists of a record are the comma-separated pieces of its
\* cells, trimmed, the empty ones dropped, in order and with duplicates kept;
\* a missing cell gives the empty token list.
C8_Tokenization ==
    \A r \in Rows(df) :
        /\ r.location_tokens = tokenize(SheetRow(r).LocationIdentified)
        /\ r.stakeholder_tokens = tokenize(SheetRow(r).Contributors)

\* C9: after reset_filters all five selections are empty, and it changed
\* neither active_tab nor the data frame; the run that follows shows all of df.
C9_ResetFrame ==
    /\ [](lastEvent.op = "reset" =>
            /\ NoSelection(session_state)
            /\ Idle => filtered = df /\ filtered_for_options = df)
    /\ [][(lastEvent'.op = "reset" /\ pc = "idle" /\ pc' = "rerun") =>
            /\ NoSelection(session_state')
            /\ session_state'.active_tab = session_state.active_tab
            /\ DOMAIN session_state' = DOMAIN session_state
            /\ df' = df
            /\ sheet' = sheet]_vars

\* C9's case: the button was pressed while the display was a proper part of
\* the data frame (some selection was not empty).
C9_Witness ==
    /\ lastEvent.op = "reset"
    /\ pc = "rerun"
    /\ Len(filtered) < Len(df)
    /\ NoSelection(session_state)

\* C10: a run whose incoming selections match no record ends with five empty
\* option lists, five empty selections and the whole data frame shown; so an
\* empty display happens only with an empty data frame.
C10_NoMatchOnlyWhenEmpty ==
    Idle =>
        /\ filtered_for_options = <<>> =>
               /\ \A key \in FilterKeys : Options(key) = <<>>
               /\ NoSelection(session_state)
               /\ filtered = df
        /\ filtered = <<>> => df = <<>>

====
